---- MODULE Spec2Model ----
\* QuickBooks Web Connector bridge: the session registry, the eight-procedure
\* dispatcher of src/sheets.js (lines 221-770), the record store adapter and
\* the QBXML renderer of src/unnamed/part_001.
EXTENDS Integers, Sequences, FiniteSets, TLC

\* ------------------------------------------------------------------ bounds
MaxMinutes == 1440   \* longest duration rendered alone, in minutes (a day)
MaxRecords == 2      \* rows of the ClockLog sheet
MaxSessions == 1     \* sessions the sequential agent opens, one after the other
MaxCursor == 2       \* receiveResponseXML is not called beyond this cursor
MaxFetch == 2        \* the fetch counter of the history saturates here
MaxMarks == 2        \* the mark-synced counters of the history saturate here
MaxTotal == 50       \* longest worklist of the progress computation
MaxTenants == 3      \* session objects created when sessions may overlap

Slots == {1, 2}      \* procedure calls that can be in flight at once
Tickets == {"TICKET-1", "TICKET-2"}
AllTickets == Tickets \cup {""}
RowIds == 1..MaxRecords

\* --------------------------------------------- IEEE-754 double arithmetic
\* A positive double is [m |-> 53 bits, most significant first, e |-> exponent]
\* and stands for m * 2^e. JavaScript numbers are doubles; the operators below
\* are the correctly rounded (round-to-nearest-even) division and product.

Pow2(k) == << 1, 2, 4, 8, 16, 32, 64, 128, 256, 512, 1024, 2048, 4096, 8192,
              16384, 32768, 65536, 131072, 262144, 524288, 1048576, 2097152,
              4194304, 8388608, 16777216, 33554432, 67108864, 134217728,
              268435456, 536870912, 1073741824 >>[k + 1]

\* 2^i modulo b, by repeated squaring (b below 2^15)
RECURSIVE Pow2Mod(_, _)
Pow2Mod(i, b) ==
  IF i = 0 THEN 1 % b
  ELSE LET h == Pow2Mod(i \div 2, b)
       IN (((h * h) % b) * (IF i % 2 = 1 THEN 2 ELSE 1)) % b

BitLen(q) == CHOOSE L \in 0..30 : q < Pow2(L) /\ (L = 0 \/ Pow2(L - 1) <= q)

\* the binary digits of q, most significant first, in exactly `width` digits
FixedBits(q, width) == [i \in 1..width |-> (q \div Pow2(width - i)) % 2]
IntBits(q) == FixedBits(q, BitLen(q))

RECURSIVE BitsToInt(_)
BitsToInt(s) ==
  IF s = << >> THEN 0
  ELSE IF Len(s) = 1 THEN s[1]
  ELSE LET half == Len(s) \div 2
       IN BitsToInt(SubSeq(s, 1, half)) * Pow2(Len(s) - half)
          + BitsToInt(SubSeq(s, half + 1, Len(s)))

\* s + 1 (one digit longer when s is all ones)
Inc(s) ==
  IF \A i \in 1..Len(s) : s[i] = 1
  THEN << 1 >> \o [i \in 1..Len(s) |-> 0]
  ELSE LET j == CHOOSE i \in 1..Len(s) :
                  s[i] = 0 /\ \A l \in (i + 1)..Len(s) : s[l] = 1
       IN [i \in 1..Len(s) |-> IF i < j THEN s[i] ELSE IF i = j THEN 1 ELSE 0]

\* digit i after the binary point of r / b, and the remainder behind it (r < b)
FracBit(r, b, i) == IF 2 * ((r * Pow2Mod(i - 1, b)) % b) >= b THEN 1 ELSE 0
FracRem(r, b, i) == (r * Pow2Mod(i, b)) % b

\* the number of zeros between the binary point and the first one of r / b
LeadZeros(r, b) ==
  CHOOSE z \in 0..30 : FracBit(r, b, z + 1) = 1 /\ \A j \in 1..z : FracBit(r, b, j) = 0

\* Round the bit string `bits` (at least 53 bits; `sticky` says that non-zero
\* bits follow it) to 53 bits, ties to even; E is the exponent of bit 53.
RoundTo53(bits, sticky, E) ==
  LET keep == SubSeq(bits, 1, 53)
      rest == SubSeq(bits, 54, Len(bits))
      guard == IF rest = << >> THEN 0 ELSE rest[1]
      st == sticky \/ \E i \in 2..Len(rest) : rest[i] = 1
      up == guard = 1 /\ (st \/ keep[53] = 1)
      inc == Inc(keep)
  IN IF ~up THEN [m |-> keep, e |-> E]
     ELSE IF Len(inc) = 54 THEN [m |-> SubSeq(inc, 1, 53), e |-> E + 1]
     ELSE [m |-> inc, e |-> E]

\* The double a / b of two positive integers (JavaScript `a / b`).
FromRatio(a, b) ==
  LET q == a \div b
      r == a % b
      ib == IntBits(q)
      L == Len(ib)
  IN IF q > 0
     THEN RoundTo53(ib \o [i \in 1..(54 - L) |-> FracBit(r, b, i)],
                    FracRem(r, b, 54 - L) # 0, L - 53)
     ELSE LET z == LeadZeros(r, b)
          IN RoundTo53([i \in 1..54 |-> FracBit(r, b, z + i)],
                       FracRem(r, b, z + 54) # 0, 0 - (z + 53))

\* The double x * k for a positive integer k below 2^12 (JavaScript `x * k`):
\* the product of the mantissa, in three limbs of 18 bits, rounded to 53 bits.
MulSmall(x, k) ==
  LET m54 == << 0 >> \o x.m
      W == Pow2(18)
      p0 == BitsToInt(SubSeq(m54, 37, 54)) * k
      p1 == BitsToInt(SubSeq(m54, 19, 36)) * k + p0 \div W
      p2 == BitsToInt(SubSeq(m54, 1, 18)) * k + p1 \div W
      p == IntBits(p2) \o FixedBits(p1 % W, 18) \o FixedBits(p0 % W, 18)
  IN RoundTo53(p, FALSE, x.e + (Len(p) - 53))

\* Math.floor and Math.round of a positive double below 2^31.
Floor(x) == IF 53 + x.e <= 0 THEN 0 ELSE BitsToInt(SubSeq(x.m, 1, 53 + x.e))

Round(x) == IF 53 + x.e < 0 THEN 0
            ELSE Floor(x) + (IF 53 + x.e < 53 THEN x.m[53 + x.e + 1] ELSE 0)

\* ------------------------------------------- renderer (src/unnamed/part_001)
\* A text is a sequence of tokens; a token is one markup metacharacter or a
\* run of ordinary characters.
RECURSIVE ReplaceAll(_, _, _)
ReplaceAll(str, c, r) ==
  IF str = << >> THEN << >>
  ELSE (IF Head(str) = c THEN << r >> ELSE << Head(str) >>)
       \o ReplaceAll(Tail(str), c, r)

RECURSIVE Concat(_)
Concat(str) == IF str = << >> THEN "" ELSE Head(str) \o Concat(Tail(str))

escapeXml(str) ==
  IF str = << >> THEN ""
  ELSE Concat(ReplaceAll(ReplaceAll(ReplaceAll(ReplaceAll(ReplaceAll(str,
         "&", "&amp;"), "<", "&lt;"), ">", "&gt;"), "\"", "&quot;"), "'", "&apos;"))

padStart2(n) == IF n < 10 THEN "0" \o ToString(n) ELSE ToString(n)

\* date is [fullYear, month (0-based, as getMonth), date]
formatDate(date) ==
  ToString(date.fullYear) \o "-" \o padStart2(date.month + 1) \o "-" \o padStart2(date.date)

\* formatDuration with the minutes component printed for every duration.
formatDuration_AlwaysMinutes(hours) ==
  LET totalMinutes == IF hours.n = 0 THEN 0
                      ELSE Round(MulSmall(FromRatio(hours.n, hours.d), 60))
      h == IF totalMinutes < 60 THEN 0 ELSE Floor(FromRatio(totalMinutes, 60))
      m == totalMinutes % 60
  IN "PT" \o ToString(h) \o "H" \o ToString(m) \o "M"
\* hours is the rational [n, d] whose nearest double the code receives
formatDuration(hours) ==
  LET totalMinutes == IF hours.n = 0 THEN 0
                      ELSE Round(MulSmall(FromRatio(hours.n, hours.d), 60))
      h == IF totalMinutes < 60 THEN 0 ELSE Floor(FromRatio(totalMinutes, 60))
      m == totalMinutes % 60
  IN IF m = 0 THEN "PT" \o ToString(h) \o "H"
     ELSE "PT" \o ToString(h) \o "H" \o ToString(m) \o "M"

RECURSIVE JoinNotes(_)
JoinNotes(notes) ==
  IF notes = << >> THEN << >>
  ELSE IF Len(notes) = 1 THEN notes[1]
  ELSE notes[1] \o << " | " >> \o JoinNotes(Tail(notes))

\* buildTimeTrackingAddXML with the billable test on the flag alone.
buildTimeTrackingAddXML_FlagOnly(entry) ==
  LET txnDate == formatDate(entry.ClockIn)
      duration == formatDuration(entry.TotalHours)
      employeeName == escapeXml(IF entry.EmployeeName = << >> THEN << "Unknown" >>
                                ELSE entry.EmployeeName)
      hasCustomer == entry.CustomerName # << >> /\ entry.CustomerName # << "Shop" >>
      notes == (IF hasCustomer THEN << << "Customer: " >> \o entry.CustomerName >> ELSE << >>)
               \o (IF entry.JobName # << >> THEN << << "Job: " >> \o entry.JobName >> ELSE << >>)
               \o (IF entry.Notes # << >> THEN << << "Notes: " >> \o entry.Notes >> ELSE << >>)
      notesText == escapeXml(JoinNotes(notes))
  IN "<QBXML><QBXMLMsgsRq onError=\"stopOnError\"><TimeTrackingAddRq><TimeTrackingAdd>"
     \o "<TxnDate>" \o txnDate \o "</TxnDate>"
     \o "<EntityRef><FullName>" \o employeeName \o "</FullName></EntityRef>"
     \o "<Duration>" \o duration \o "</Duration>"
     \o (IF entry.RequiresTicket = "TRUE"
         THEN "<CustomerRef><FullName>" \o escapeXml(entry.CustomerName)
              \o "</FullName></CustomerRef><BillableStatus>Billable</BillableStatus>"
         ELSE "<BillableStatus>NotBillable</BillableStatus>")
     \o (IF notesText # "" THEN "<Notes>" \o notesText \o "</Notes>" ELSE "")
     \o "</TimeTrackingAdd></TimeTrackingAddRq></QBXMLMsgsRq></QBXML>"

buildTimeTrackingAddXML(entry) ==
  LET txnDate == formatDate(entry.ClockIn)
      duration == formatDuration(entry.TotalHours)
      employeeName == escapeXml(IF entry.EmployeeName = << >> THEN << "Unknown" >>
                                ELSE entry.EmployeeName)
      hasCustomer == entry.CustomerName # << >> /\ entry.CustomerName # << "Shop" >>
      notes == (IF hasCustomer THEN << << "Customer: " >> \o entry.CustomerName >> ELSE << >>)
               \o (IF entry.JobName # << >> THEN << << "Job: " >> \o entry.JobName >> ELSE << >>)
               \o (IF entry.Notes # << >> THEN << << "Notes: " >> \o entry.Notes >> ELSE << >>)
      notesText == escapeXml(JoinNotes(notes))
  IN "<QBXML><QBXMLMsgsRq onError=\"stopOnError\"><TimeTrackingAddRq><TimeTrackingAdd>"
     \o "<TxnDate>" \o txnDate \o "</TxnDate>"
     \o "<EntityRef><FullName>" \o employeeName \o "</FullName></EntityRef>"
     \o "<Duration>" \o duration \o "</Duration>"
     \o (IF hasCustomer /\ entry.RequiresTicket = "TRUE"
         THEN "<CustomerRef><FullName>" \o escapeXml(entry.CustomerName)
              \o "</FullName></CustomerRef><BillableStatus>Billable</BillableStatus>"
         ELSE "<BillableStatus>NotBillable</BillableStatus>")
     \o (IF notesText # "" THEN "<Notes>" \o notesText \o "</Notes>" ELSE "")
     \o "</TimeTrackingAdd></TimeTrackingAddRq></QBXMLMsgsRq></QBXML>"

\* ----------------------------------------------------- the ClockLog rows
\* The business fields of row id (the sheet's columns, src/sheets.js:15-37).
Row(id) ==
  [ID |-> id,
   EmployeeName |-> IF id % 2 = 1 THEN << "Ann" >> ELSE << "Bob ", "&", " Son" >>,
   ClockIn |-> [fullYear |-> 2026, month |-> 0, date |-> id],
   TotalHours |-> [n |-> 60 + 30 * id, d |-> 60],
   CustomerName |-> IF id % 3 = 1 THEN << "Shop" >>
                    ELSE IF id % 3 = 2 THEN << "Acme ", "<", "West", ">" >> ELSE << >>,
   JobName |-> IF id % 2 = 0 THEN << "Roof" >> ELSE << >>,
   Notes |-> << >>,
   RequiresTicket |-> IF id % 2 = 0 THEN "TRUE" ELSE ""]

\* ------------------------------------------------------------- the state
CONFIG == [username |-> "trippinqb", password |-> "changeme123"]
Usernames == {CONFIG.username, "someone"}
Passwords == {CONFIG.password, "guess"}
Messages == {"", "connection lost"}

\* The outcome documents the agent can send back (what xml2js makes of them).
Rs(code, msg) == [wellFormed |-> TRUE, TimeTrackingAddRs |-> TRUE,
                  statusCode |-> code, statusMessage |-> msg]
NoRs == [wellFormed |-> TRUE, TimeTrackingAddRs |-> FALSE,
         statusCode |-> "", statusMessage |-> ""]
Malformed == [wellFormed |-> FALSE, TimeTrackingAddRs |-> FALSE,
              statusCode |-> "", statusMessage |-> ""]
Responses == {Rs("0", "Status OK"), Rs("3100", "name not found"), Rs("3100", ""),
              NoRs, Malformed}

\* error.message of the three kinds of exception the handlers catch
ParseError == "Non-whitespace before first tag."
TypeError == "Cannot read properties of undefined (reading 'ID')"
FetchError == "Apps Script returned 500"
MarkError == "Failed to mark entries as synced"

Infinity == 2147483647   \* the double +Infinity of a division by zero

\* ------------------------------------------------ cells of the sheet
\* values.get is called with valueRenderOption UNFORMATTED_VALUE (lines 82-87,
\* 145-149): a cell typed as a number arrives as a JS number, a text cell as
\* a string. An ID cell is its printed text and whether it is a number.
IdCell(id, isNumber) == [number |-> isNumber, text |-> id]
\* String(v) of a cell value: a string with the same printed text.
String(cell) == [cell EXCEPT !.number = FALSE]
\* s.toUpperCase() on the words the Status and QBSynced columns hold.
toUpperCase(s) ==
  CASE s = "complete" -> "COMPLETE"
    [] s = "true" -> "TRUE"
    [] OTHER -> s
\* A TotalHours cell: blank, or the number n/d.
Blank == [blank |-> TRUE, n |-> 0, d |-> 1]
Cell(hours) == [blank |-> FALSE, n |-> hours.n, d |-> hours.d]
\* A row of ClockLog before the portal completes it.
SheetRow(id, isNumber, name, hours) ==
  [ID |-> IdCell(id, isNumber), Status |-> "", QBSynced |-> "",
   EmployeeName |-> name, TotalHours |-> hours]

VARIABLES
  store,     \* the ClockLog sheet: row id -> its cells (SheetRow)
  sessions,  \* the Map `sessions`: ticket -> session object (0: no entry)
  heap,      \* the session objects, in order of creation
  calls,     \* the handlers suspended at an await, one per slot
  reply,     \* the latest procedure response
  hist,      \* history of each session object (not program state)
  args,      \* input of the function under check (function specifications)
  result     \* its output

vars == << store, sessions, heap, calls, reply, hist, args, result >>

NewSession == [authenticated |-> TRUE, pendingEntries |-> << >>,
               currentIndex |-> 0, lastError |-> ""]

\* History of a session object.
\*   fetches  calls of getQBSyncPendingEntries made for it
\*   stored   one of them returned a worklist, which was stored
\*   handed   id of the record whose document the latest sendRequestXML returned
\*            (0: it returned ""; -1: no sendRequestXML since the last
\*            receiveResponseXML)
\*   cursor0  the cursor when the latest receiveResponseXML began (-1: none yet)
\* and, kept only for the well-behaved agent of SpecAgent:
\*   next     the call the agent makes next
\*   rounds   receiveResponseXML calls made
\*   status   every outcome so far was a status (success or failure) document
\*   oks      ids the agent confirmed as success
\*   failed   a failure with a non-empty status message was reported
\*   failedLast  the latest failure reported had a non-empty status message
\*   marks    calls of markEntriesQBSynced per id
NewHist == [fetches |-> 0, stored |-> FALSE, handed |-> -1, cursor0 |-> -1,
            next |-> "send", rounds |-> 0, status |-> TRUE, oks |-> {},
            failed |-> FALSE, failedLast |-> FALSE,
            marks |-> [id \in RowIds |-> 0]]

Idle == [op |-> "idle", sid |-> 0, rsp |-> Malformed, entry |-> 0, handed |-> 0]
NoReply == [op |-> "none", sid |-> 0, str |-> "", aux |-> "", num |-> 0]
NoArgs == [fn |-> "none", a |-> 0, b |-> 0]

Sat(x, max) == IF x < max THEN x + 1 ELSE max

\* An agent keeps at most n calls in flight and opens `sessions` sessions, one
\* after the other unless overlap; wb: it is the well-behaved agent, which
\* calls sendRequestXML, then receiveResponseXML for each document it got.
\* tickets: the strings line 378 can produce for it. While sessions follow one
\* another no two tickets are registered together and the bridge compares a
\* ticket only with the registered one, so the string is immaterial and one
\* name stands for them all; TICKET-2 is then a ticket that was never issued.
Sequential == [n |-> 1, wb |-> FALSE, sessions |-> MaxSessions, overlap |-> FALSE,
               tickets |-> {"TICKET-1"}, collide |-> FALSE]
Concurrent == [n |-> 2, wb |-> FALSE, sessions |-> 1, overlap |-> FALSE,
               tickets |-> {"TICKET-1"}, collide |-> FALSE]
WellBehaved == [n |-> 1, wb |-> TRUE, sessions |-> 1, overlap |-> FALSE,
                tickets |-> {"TICKET-1"}, collide |-> FALSE]
\* Several agents (or one that authenticates again before it closes); collide:
\* line 378 may produce a string that is registered already.
Tenants == [n |-> 1, wb |-> FALSE, sessions |-> MaxTenants, overlap |-> TRUE,
            tickets |-> Tickets, collide |-> TRUE]
\* Well-behaved agents side by side, one for each ticket name, each with a
\* session of its own, one call at a time between them; their tickets differ.
Overlapping == [n |-> 1, wb |-> TRUE, sessions |-> Cardinality(Tickets), overlap |-> TRUE,
                tickets |-> Tickets, collide |-> FALSE]
\* The strings line 378 can return to the agent now. Without a collision the
\* string is one that is not registered, and as the bridge only compares
\* tickets, which one is immaterial: it is the first of them.
TicketNames == << "TICKET-1", "TICKET-2" >>
Issued(agent) ==
  IF agent.collide THEN agent.tickets
  ELSE {t \in agent.tickets :
          /\ sessions[t] = 0
          /\ \A i, j \in DOMAIN TicketNames :
                (TicketNames[i] = t /\ TicketNames[j] \in agent.tickets
                   /\ sessions[TicketNames[j]] = 0) => i <= j}

\* A session object that nothing refers to any more (garbage).
DeadSession == [authenticated |-> FALSE, pendingEntries |-> << >>,
                currentIndex |-> 0, lastError |-> ""]
Collect(objs, dead, map, cls) ==
  [sid \in DOMAIN objs |->
     IF \/ \E t \in AllTickets : map[t] = sid
        \/ \E i \in Slots : cls[i].op # "idle" /\ cls[i].sid = sid
     THEN objs[sid] ELSE dead]

InFlight == {i \in Slots : calls[i].op # "idle"}
CanStart(agent) == Cardinality(InFlight) < agent.n
FreeSlot == CHOOSE i \in Slots :
              calls[i].op = "idle" /\ \A j \in Slots : calls[j].op = "idle" => i <= j
Live(sid) == \E t \in AllTickets : sessions[t] = sid

Init ==
  /\ store = [id \in RowIds |-> SheetRow(id, FALSE, Row(id).EmployeeName, Cell(Row(id).TotalHours))]
  /\ sessions = [t \in AllTickets |-> 0]
  /\ heap = << >>
  /\ calls = [i \in Slots |-> Idle]
  /\ reply = NoReply
  /\ hist = << >>
  /\ args = NoArgs
  /\ result = 0

\* ---------------------------------------- record store adapter (the sheet)
\* A row of the sheet is completed by the portal and becomes ready for export.
CompleteRow(id) ==
  /\ store[id].Status = ""
  /\ store' = [store EXCEPT ![id].Status = "COMPLETE"]
  /\ UNCHANGED << sessions, heap, calls, reply, hist, args, result >>

\* What a successful getQBSyncPendingEntries() returns: the keys of the rows
\* pushed, in sheet order. entry[h] = row[j] || '' makes a blank cell and a
\* numeric 0 the same empty string, so both fail the test of line 118.
getQBSyncPendingEntries ==
  SelectSeq([i \in RowIds |-> i],
            LAMBDA id : /\ toUpperCase(store[id].Status) = "COMPLETE"
                        /\ toUpperCase(store[id].QBSynced) # "TRUE"
                        /\ store[id].EmployeeName # << >>
                        /\ ~store[id].TotalHours.blank
                        /\ store[id].TotalHours.n # 0)

\* The sheet after a successful markEntriesQBSynced(entryIds). entryIds holds
\* rows e whose entry.ID is the cell as it was read; line 161 compares it,
\* with Array.includes (strict equality), to String(row[idIdx]).
markEntriesQBSynced(entryIds) ==
  [id \in RowIds |->
     IF \E e \in entryIds : store[e].ID = String(store[id].ID)
     THEN [store[id] EXCEPT !.QBSynced = "TRUE"]
     ELSE store[id]]

\* -------------------------------------------- dispatcher (src/sheets.js)
\* A response: the procedure, the session object the call addressed (0: none),
\* the string result, the integer result, and in aux the second string of
\* authenticate's result; for closeConnection aux notes the ticket of the call.
Reply(op, sid, str, aux, num) ==
  [op |-> op, sid |-> sid, str |-> str, aux |-> aux, num |-> num]

\* The same handler with the session stored before the credentials are tested.
handleAuthenticate_StoreFirst(agent, username, password) ==
  /\ CanStart(agent)
  /\ Len(heap) < agent.sessions
  /\ agent.overlap \/ \A t \in Tickets : sessions[t] = 0
  /\ LET valid == username = CONFIG.username /\ password = CONFIG.password IN
     \E ticket \in IF valid THEN Issued(agent) ELSE {""} :
       /\ sessions' = [sessions EXCEPT ![ticket] = Len(heap) + 1]
       /\ reply' = IF valid THEN Reply("authenticate", Len(heap) + 1, ticket, "", 0)
                   ELSE Reply("authenticate", 0, "", "nvu", 0)
  /\ heap' = Collect(Append(heap, NewSession), DeadSession, sessions', calls)
  /\ hist' = Collect(Append(hist, NewHist), NewHist, sessions', calls)
  /\ UNCHANGED << store, calls, args, result >>

handleAuthenticate(agent, username, password) ==
  /\ CanStart(agent)
  /\ IF username = CONFIG.username /\ password = CONFIG.password
     THEN /\ Len(heap) < agent.sessions
          /\ agent.overlap \/ \A t \in Tickets : sessions[t] = 0
          /\ \E ticket \in Issued(agent) :
               /\ sessions' = [sessions EXCEPT ![ticket] = Len(heap) + 1]
               /\ reply' = Reply("authenticate", Len(heap) + 1, ticket, "", 0)
          /\ heap' = Collect(Append(heap, NewSession), DeadSession, sessions', calls)
          /\ hist' = Collect(Append(hist, NewHist), NewHist, sessions', calls)
     ELSE /\ reply' = Reply("authenticate", 0, "", "nvu", 0)
          /\ UNCHANGED << sessions, heap, hist >>
  /\ UNCHANGED << store, calls, args, result >>

Documents == [id \in RowIds |-> buildTimeTrackingAddXML(Row(id))]

\* The same lines with the test of line 425 failing at the end of a worklist
\* that has entries: the last document is returned again.
SendResult_NoEnd(session) ==
  IF Len(session.pendingEntries) = 0
  THEN [str |-> "", id |-> 0]
  ELSE LET last == Len(session.pendingEntries)
           entry == Row(session.pendingEntries[IF session.currentIndex >= last THEN last
                                               ELSE session.currentIndex + 1])
       IN [str |-> Documents[entry.ID], id |-> entry.ID]

\* Lines 424-437: the document of the current entry, or "" when none is left.
SendResult(session) ==
  IF session.currentIndex >= Len(session.pendingEntries)
  THEN [str |-> "", id |-> 0]
  ELSE LET entry == Row(session.pendingEntries[session.currentIndex + 1])
       IN [str |-> Documents[entry.ID], id |-> entry.ID]

\* The history of a session after a sendRequestXML returned r.
Sent(h, wb, r) ==
  [h EXCEPT !.handed = r.id,
            !.next = IF ~wb THEN @ ELSE IF r.str = "" THEN "stop" ELSE "receive"]

handleSendRequestXML(agent, ticket) ==
  /\ CanStart(agent)
  /\ LET sid == sessions[ticket] IN
     IF sid = 0 \/ ~heap[sid].authenticated
     THEN /\ ~agent.wb
          /\ reply' = Reply("sendRequestXML", 0, "", "", 0)
          /\ UNCHANGED << heap, calls, hist >>
     ELSE LET session == heap[sid] IN
          /\ agent.wb => hist[sid].next = "send"
          /\ IF Len(session.pendingEntries) = 0 /\ session.currentIndex = 0
             THEN \* await getQBSyncPendingEntries()
                  /\ calls' = [calls EXCEPT ![FreeSlot] =
                                 [Idle EXCEPT !.op = "sendRequestXML", !.sid = sid]]
                  /\ hist' = [hist EXCEPT ![sid].fetches = Sat(@, MaxFetch)]
                  /\ UNCHANGED << heap, reply >>
             ELSE LET r == SendResult(session) IN
                  /\ reply' = Reply("sendRequestXML", sid, r.str, "", 0)
                  /\ hist' = [hist EXCEPT ![sid] = Sent(@, agent.wb, r)]
                  /\ UNCHANGED << heap, calls >>
  /\ UNCHANGED << store, sessions, args, result >>

\* getQBSyncPendingEntries() resolved: lines 420-437.
sendRequestXMLFetched(agent, i) ==
  /\ calls[i].op = "sendRequestXML"
  /\ LET sid == calls[i].sid
         session == [heap[sid] EXCEPT !.pendingEntries = getQBSyncPendingEntries]
         r == SendResult(session)
     IN /\ calls' = [calls EXCEPT ![i] = Idle]
        /\ heap' = Collect([heap EXCEPT ![sid] = session], DeadSession, sessions, calls')
        /\ reply' = Reply("sendRequestXML", sid, r.str, "", 0)
        /\ hist' = Collect([hist EXCEPT ![sid] = Sent([@ EXCEPT !.stored = TRUE],
                                                       agent.wb, r)],
                           NewHist, sessions, calls')
  /\ UNCHANGED << store, sessions, args, result >>

\* The same catch without the assignment of line 440.
sendRequestXMLFetchFailed_Silent(agent, i) ==
  /\ calls[i].op = "sendRequestXML"
  /\ LET sid == calls[i].sid
     IN /\ calls' = [calls EXCEPT ![i] = Idle]
        /\ heap' = Collect(heap, DeadSession, sessions, calls')
        /\ reply' = Reply("sendRequestXML", sid, "", "", 0)
        /\ hist' = Collect([hist EXCEPT ![sid] = Sent(@, agent.wb, [str |-> "", id |-> 0])],
                           NewHist, sessions, calls')
  /\ UNCHANGED << store, sessions, args, result >>

\* getQBSyncPendingEntries() rejected: the catch of lines 438-442.
sendRequestXMLFetchFailed(agent, i) ==
  /\ calls[i].op = "sendRequestXML"
  /\ LET sid == calls[i].sid
     IN /\ calls' = [calls EXCEPT ![i] = Idle]
        /\ heap' = Collect([heap EXCEPT ![sid].lastError = FetchError], DeadSession,
                           sessions, calls')
        /\ reply' = Reply("sendRequestXML", sid, "", "", 0)
        /\ hist' = Collect([hist EXCEPT ![sid] = Sent(@, agent.wb, [str |-> "", id |-> 0])],
                           NewHist, sessions, calls')
  /\ UNCHANGED << store, sessions, args, result >>

\* Line 485: Math.floor((currentIndex / length) * 100), in doubles.
progress(currentIndex, length) ==
  IF length = 0 THEN Infinity
  ELSE Floor(MulSmall(FromRatio(currentIndex, length), 100))

ProgressTable ==
  [c \in 1..(MaxCursor + 1), n \in 0..MaxRecords |-> progress(c, n)]

\* The same lines without the increment of line 482.
Advance_Stay(sid) ==
  [heap |-> heap,
   num |-> ProgressTable[heap[sid].currentIndex + 1, Len(heap[sid].pendingEntries)]]

\* Lines 481-487 on the session object sid: the heap and the result.
Advance(sid) ==
  LET c == heap[sid].currentIndex + 1
  IN [heap |-> [heap EXCEPT ![sid].currentIndex = c],
      num |-> ProgressTable[c, Len(heap[sid].pendingEntries)]]

\* The same lines without the assignment of line 490.
Catch_NoError(sid, message) ==
  [heap |-> [heap EXCEPT ![sid].currentIndex = @ + 1], num |-> -1]

\* The same lines without the increment of line 491.
Catch_NoAdvance(sid, message) ==
  [heap |-> [heap EXCEPT ![sid].lastError = message], num |-> -1]

\* Lines 488-493 on the session object sid: the heap and the result.
Catch(sid, message) ==
  [heap |-> [heap EXCEPT ![sid].lastError = message, ![sid].currentIndex = @ + 1],
   num |-> -1]

\* The same lines without the increment of line 482: the entry is tried again.
Skip_Retry(sid, response) ==
  [heap |-> [heap EXCEPT ![sid].lastError = IF response.TimeTrackingAddRs
                                            THEN response.statusMessage ELSE @],
   num |-> Advance(sid).num]

\* The same lines without the assignment of line 477.
Skip_KeepError(sid, response) == Advance(sid)

\* Lines 466-487 for a response that does not report success: the heap and
\* the result.
Skip(sid, response) ==
  [heap |-> [heap EXCEPT ![sid].lastError = IF response.TimeTrackingAddRs
                                            THEN response.statusMessage ELSE @,
                         ![sid].currentIndex = @ + 1],
   num |-> Advance(sid).num]

Receiving(sid) ==
  Cardinality({i \in Slots : calls[i].op = "receiveResponseXML" /\ calls[i].sid = sid})

\* The history of a session when a receiveResponseXML with `response` begins
\* at cursor c.
Received(h, wb, response, c) ==
  LET isStatus == response.wellFormed /\ response.TimeTrackingAddRs
      success == isStatus /\ response.statusCode = "0"
      failure == isStatus /\ ~success
  IN IF ~wb THEN [h EXCEPT !.handed = -1, !.cursor0 = c]
     ELSE [h EXCEPT !.handed = -1, !.cursor0 = c, !.next = "send",
                    !.rounds = Sat(@, MaxCursor),
                    !.status = @ /\ isStatus,
                    !.oks = IF success /\ h.handed > 0 THEN @ \cup {h.handed} ELSE @,
                    !.failed = @ \/ (failure /\ response.statusMessage # ""),
                    !.failedLast = IF failure THEN response.statusMessage # "" ELSE @]

handleReceiveResponseXML(agent, ticket, response) ==
  /\ CanStart(agent)
  /\ LET sid == sessions[ticket] IN
     IF sid = 0
     THEN /\ ~agent.wb
          /\ reply' = Reply("receiveResponseXML", 0, "", "", -1)
          /\ UNCHANGED << heap, calls, hist >>
     ELSE LET session == heap[sid]
              h == Received(hist[sid], agent.wb, response, session.currentIndex)
          IN /\ agent.wb => hist[sid].next = "receive"
             /\ session.currentIndex + Receiving(sid) < MaxCursor
             /\ IF ~response.wellFormed
                THEN /\ heap' = Catch(sid, ParseError).heap
                     /\ reply' = Reply("receiveResponseXML", sid, "", "", -1)
                     /\ hist' = [hist EXCEPT ![sid] = h]
                     /\ UNCHANGED calls
                ELSE IF response.TimeTrackingAddRs /\ response.statusCode = "0"
                THEN IF session.currentIndex >= Len(session.pendingEntries)
                     THEN /\ heap' = Catch(sid, TypeError).heap
                          /\ reply' = Reply("receiveResponseXML", sid, "", "", -1)
                          /\ hist' = [hist EXCEPT ![sid] = h]
                          /\ UNCHANGED calls
                     ELSE \* await markEntriesQBSynced([entry.ID])
                          LET entry == Row(session.pendingEntries[session.currentIndex + 1])
                          IN /\ calls' = [calls EXCEPT ![FreeSlot] =
                                   [op |-> "receiveResponseXML", sid |-> sid,
                                    rsp |-> response, entry |-> entry.ID,
                                    handed |-> hist[sid].handed]]
                             /\ hist' = [hist EXCEPT ![sid] =
                                   IF agent.wb
                                   THEN [h EXCEPT !.marks[entry.ID] = Sat(@, MaxMarks)]
                                   ELSE h]
                             /\ UNCHANGED << heap, reply >>
                ELSE /\ heap' = Skip(sid, response).heap
                     /\ reply' = Reply("receiveResponseXML", sid, "", "",
                                       Skip(sid, response).num)
                     /\ hist' = [hist EXCEPT ![sid] = h]
                     /\ UNCHANGED calls
  /\ UNCHANGED << store, sessions, args, result >>

\* markEntriesQBSynced() resolved: lines 481-487.
receiveResponseXMLMarked(i) ==
  /\ calls[i].op = "receiveResponseXML"
  /\ store' = markEntriesQBSynced({calls[i].entry})
  /\ calls' = [calls EXCEPT ![i] = Idle]
  /\ heap' = Collect(Advance(calls[i].sid).heap, DeadSession, sessions, calls')
  /\ reply' = Reply("receiveResponseXML", calls[i].sid, "", "", Advance(calls[i].sid).num)
  /\ hist' = Collect(hist, NewHist, sessions, calls')
  /\ UNCHANGED << sessions, args, result >>

\* The same step with the rejection swallowed: the call ends as a success.
receiveResponseXMLMarkFailed_Swallowed(i) ==
  /\ calls[i].op = "receiveResponseXML"
  /\ calls' = [calls EXCEPT ![i] = Idle]
  /\ heap' = Collect(Advance(calls[i].sid).heap, DeadSession, sessions, calls')
  /\ reply' = Reply("receiveResponseXML", calls[i].sid, "", "", Advance(calls[i].sid).num)
  /\ hist' = Collect(hist, NewHist, sessions, calls')
  /\ UNCHANGED << store, sessions, args, result >>

\* markEntriesQBSynced() rejected: the catch of lines 488-493.
receiveResponseXMLMarkFailed(i) ==
  /\ calls[i].op = "receiveResponseXML"
  /\ calls' = [calls EXCEPT ![i] = Idle]
  /\ heap' = Collect(Catch(calls[i].sid, MarkError).heap, DeadSession, sessions, calls')
  /\ reply' = Reply("receiveResponseXML", calls[i].sid, "", "", -1)
  /\ hist' = Collect(hist, NewHist, sessions, calls')
  /\ UNCHANGED << store, sessions, args, result >>

\* The same handler with the message stored in every registered session.
handleConnectionError_Broadcast(agent, ticket, message) ==
  /\ CanStart(agent)
  /\ heap' = [sid \in DOMAIN heap |->
                IF Live(sid) THEN [heap[sid] EXCEPT !.lastError = message] ELSE heap[sid]]
  /\ reply' = Reply("connectionError", sessions[ticket], "done", "", 0)
  /\ UNCHANGED << store, sessions, calls, hist, args, result >>

\* The same handler with a session created for a ticket that has none.
handleConnectionError_Upsert(agent, ticket, message) ==
  /\ CanStart(agent)
  /\ LET sid == sessions[ticket] IN
     IF sid # 0
     THEN /\ heap' = [heap EXCEPT ![sid].lastError = message]
          /\ UNCHANGED << sessions, hist >>
     ELSE /\ heap' = Append(heap, [NewSession EXCEPT !.lastError = message])
          /\ hist' = Append(hist, NewHist)
          /\ sessions' = [sessions EXCEPT ![ticket] = Len(heap) + 1]
  /\ reply' = Reply("connectionError", sessions[ticket], "done", "", 0)
  /\ UNCHANGED << store, calls, args, result >>

\* The same handler with the session given up after the error.
handleConnectionError_Drop(agent, ticket, message) ==
  /\ CanStart(agent)
  /\ sessions' = [sessions EXCEPT ![ticket] = 0]
  /\ heap' = Collect(heap, DeadSession, sessions', calls)
  /\ hist' = Collect(hist, NewHist, sessions', calls)
  /\ reply' = Reply("connectionError", sessions[ticket], "done", "", 0)
  /\ UNCHANGED << store, calls, args, result >>

handleConnectionError(agent, ticket, message) ==
  /\ CanStart(agent)
  /\ LET sid == sessions[ticket] IN
     IF sid # 0
     THEN heap' = [heap EXCEPT ![sid].lastError = message]
     ELSE UNCHANGED heap
  /\ reply' = Reply("connectionError", sessions[ticket], "done", "", 0)
  /\ UNCHANGED << store, sessions, calls, hist, args, result >>

handleGetLastError(agent, ticket) ==
  /\ CanStart(agent)
  /\ reply' = Reply("getLastError", sessions[ticket],
                    IF sessions[ticket] # 0 THEN heap[sessions[ticket]].lastError ELSE "",
                    "", 0)
  /\ UNCHANGED << store, sessions, heap, calls, hist, args, result >>

handleCloseConnection(agent, ticket) ==
  /\ CanStart(agent)
  /\ agent.wb => sessions[ticket] # 0 /\ hist[sessions[ticket]].next = "stop"
  /\ sessions' = [sessions EXCEPT ![ticket] = 0]
  /\ heap' = Collect(heap, DeadSession, sessions', calls)
  /\ hist' = Collect(hist, NewHist, sessions', calls)
  /\ reply' = Reply("closeConnection", sessions[ticket], "OK", ticket, 0)
  /\ UNCHANGED << store, calls, args, result >>

\* ------------------------------------------------------- specifications
Handlers(agent) ==
  \/ \E u \in Usernames, p \in Passwords : handleAuthenticate(agent, u, p)
  \/ \E t \in AllTickets : handleSendRequestXML(agent, t)
  \/ \E t \in AllTickets, r \in Responses : handleReceiveResponseXML(agent, t, r)
  \/ \E t \in AllTickets, m \in Messages : handleConnectionError(agent, t, m)
  \/ \E t \in AllTickets : handleGetLastError(agent, t)
  \/ \E t \in AllTickets : handleCloseConnection(agent, t)

Resume(agent) ==
  \/ \E i \in Slots : sendRequestXMLFetched(agent, i)
  \/ \E i \in Slots : sendRequestXMLFetchFailed(agent, i)
  \/ \E i \in Slots : receiveResponseXMLMarked(i)
  \/ \E i \in Slots : receiveResponseXMLMarkFailed(i)

Environment == \E id \in RowIds : CompleteRow(id)

\* The agent makes one call at a time, in any order.
Next == Handlers(Sequential) \/ Resume(Sequential) \/ Environment
Spec == Init /\ [][Next]_vars

\* Sessions side by side on a sheet whose rows are all ready for export: each
\* agent follows the protocol, and connectionError and getLastError come at
\* any time for either ticket.
InitOverlap ==
  /\ store = [id \in RowIds |->
               [SheetRow(id, FALSE, Row(id).EmployeeName, Cell(Row(id).TotalHours))
                  EXCEPT !.Status = "COMPLETE"]]
  /\ sessions = [t \in AllTickets |-> 0]
  /\ heap = << >>
  /\ calls = [i \in Slots |-> Idle]
  /\ reply = NoReply
  /\ hist = << >>
  /\ args = NoArgs
  /\ result = 0
Outcomes == {Rs("0", "Status OK"), Rs("3100", "name not found")}
NextOverlap ==
  \/ handleAuthenticate(Overlapping, CONFIG.username, CONFIG.password)
  \/ \E t \in Tickets : handleSendRequestXML(Overlapping, t)
  \/ \E t \in Tickets, r \in Outcomes : handleReceiveResponseXML(Overlapping, t, r)
  \/ \E t \in Tickets : handleConnectionError(Overlapping, t, "connection lost")
  \/ \E t \in Tickets : handleGetLastError(Overlapping, t)
  \/ \E t \in Tickets : handleCloseConnection(Overlapping, t)
  \/ Resume(Overlapping)
SpecOverlap == InitOverlap /\ [][NextOverlap]_vars

\* The agent keeps two calls in flight.
NextConc == Handlers(Concurrent) \/ Resume(Concurrent) \/ Environment
SpecConc == Init /\ [][NextConc]_vars

\* The well-behaved agent: authenticate, then sendRequestXML and one
\* receiveResponseXML for each document, closeConnection after the empty one.
NextAgent ==
  \/ \E u \in Usernames, p \in Passwords : handleAuthenticate(WellBehaved, u, p)
  \/ \E t \in Tickets : handleSendRequestXML(WellBehaved, t)
  \/ \E t \in Tickets, r \in Responses : handleReceiveResponseXML(WellBehaved, t, r)
  \/ \E t \in Tickets : handleCloseConnection(WellBehaved, t)
  \/ Resume(WellBehaved)
  \/ Environment
SpecAgent == Init /\ [][NextAgent]_vars
\* The same agent when it goes on: it makes the call that is due, and every
\* awaited call to the sheet settles (it resolves or it rejects).
SpecAgentFair ==
  /\ Init
  /\ [][NextAgent]_vars
  /\ WF_vars(\E t \in Tickets : handleSendRequestXML(WellBehaved, t))
  /\ WF_vars(\E t \in Tickets, r \in Responses : handleReceiveResponseXML(WellBehaved, t, r))
  /\ WF_vars(Resume(WellBehaved))

\* Sessions that overlap, and the calls that work on the registry alone.
NextRegistry ==
  \/ \E u \in Usernames, p \in Passwords : handleAuthenticate(Tenants, u, p)
  \/ \E t \in AllTickets, m \in Messages : handleConnectionError(Tenants, t, m)
  \/ \E t \in AllTickets : handleGetLastError(Tenants, t)
  \/ \E t \in AllTickets : handleCloseConnection(Tenants, t)
SpecRegistry == Init /\ [][NextRegistry]_vars

\* The progress computation of line 485 alone: receiveResponseXML leaves its
\* success path with cursor a in a session of b entries.
InitProgress ==
  /\ store = [id \in RowIds |-> SheetRow(id, FALSE, Row(id).EmployeeName, Cell(Row(id).TotalHours))]
  /\ sessions = [t \in AllTickets |-> 0]
  /\ heap = << >>
  /\ calls = [i \in Slots |-> Idle]
  /\ reply = NoReply
  /\ hist = << >>
  /\ args \in {[fn |-> "progress", a |-> c, b |-> n] : c \in 1..MaxTotal, n \in 1..MaxTotal}
  /\ args.a <= args.b
  /\ result = 0
ComputeProgress ==
  /\ args.fn = "progress"
  /\ result' = progress(args.a, args.b)
  /\ args' = [args EXCEPT !.fn = "progress returned"]
  /\ UNCHANGED << store, sessions, heap, calls, reply, hist >>
SpecProgress == InitProgress /\ [][ComputeProgress]_vars

\* The record store adapter alone, on sheets whose rows differ in the type of
\* the ID cell and in the two required cells. args.a collects the ids whose
\* markEntriesQBSynced call has completed, args.b is the latest of them and
\* result is what the latest getQBSyncPendingEntries returned.
SheetKinds == {"text id", "number id", "no name", "zero hours", "no hours"}
KindRow(id, kind) ==
  SheetRow(id, kind = "number id",
           IF kind = "no name" THEN << >> ELSE Row(id).EmployeeName,
           CASE kind = "zero hours" -> Cell([n |-> 0, d |-> 60])
             [] kind = "no hours" -> Blank
             [] OTHER -> Cell(Row(id).TotalHours))
InitSheet ==
  /\ \E kinds \in [RowIds -> SheetKinds] : store = [id \in RowIds |-> KindRow(id, kinds[id])]
  /\ sessions = [t \in AllTickets |-> 0]
  /\ heap = << >>
  /\ calls = [i \in Slots |-> Idle]
  /\ reply = NoReply
  /\ hist = << >>
  /\ args = [fn |-> "none", a |-> {}, b |-> 0]
  /\ result = << >>
Fetch ==
  /\ result' = getQBSyncPendingEntries
  /\ args' = [args EXCEPT !.fn = "fetch"]
  /\ UNCHANGED << store, sessions, heap, calls, reply, hist >>
Mark(id) ==
  /\ \E i \in DOMAIN result : result[i] = id
  /\ store' = markEntriesQBSynced({id})
  /\ args' = [fn |-> "mark", a |-> args.a \cup {id}, b |-> id]
  /\ UNCHANGED << sessions, heap, calls, reply, hist, result >>
NextSheet ==
  \/ Environment
  \/ Fetch
  \/ \E id \in RowIds : Mark(id)
SpecSheet == InitSheet /\ [][NextSheet]_vars

\* formatDuration alone, on the decimal hours of a whole number of minutes:
\* args.a minutes are the hours args.a / args.b.
InitDuration ==
  /\ store = [id \in RowIds |-> SheetRow(id, FALSE, Row(id).EmployeeName, Cell(Row(id).TotalHours))]
  /\ sessions = [t \in AllTickets |-> 0]
  /\ heap = << >>
  /\ calls = [i \in Slots |-> Idle]
  /\ reply = NoReply
  /\ hist = << >>
  /\ args \in {[fn |-> "duration", a |-> t, b |-> 60] : t \in 0..MaxMinutes}
  /\ result = ""
ComputeDuration ==
  /\ args.fn = "duration"
  /\ result' = formatDuration([n |-> args.a, d |-> args.b])
  /\ args' = [args EXCEPT !.fn = "duration returned"]
  /\ UNCHANGED << store, sessions, heap, calls, reply, hist >>
SpecDuration == InitDuration /\ [][ComputeDuration]_vars

\* buildTimeTrackingAddXML alone, on entries that differ in the customer, the
\* ticket flag and the three optional texts; args.a is the entry.
Customers == {<< >>, << "Shop" >>, << "Acme ", "<", "West", ">" >>}
Flags == {"TRUE", "FALSE", ""}
Entries ==
  {[Row(1) EXCEPT !.CustomerName = c, !.RequiresTicket = f, !.JobName = j,
                  !.Notes = n, !.EmployeeName = e] :
     c \in Customers, f \in Flags, j \in {<< >>, << "Roof" >>},
     n \in {<< >>, << "<", "CustomerRef", ">" >>},
     e \in {<< "Ann" >>, << "Bob ", "&", " Son" >>}}
InitRender ==
  /\ store = [id \in RowIds |-> SheetRow(id, FALSE, Row(id).EmployeeName, Cell(Row(id).TotalHours))]
  /\ sessions = [t \in AllTickets |-> 0]
  /\ heap = << >>
  /\ calls = [i \in Slots |-> Idle]
  /\ reply = NoReply
  /\ hist = << >>
  /\ args \in {[fn |-> "render", a |-> entry, b |-> 0] : entry \in Entries}
  /\ result = ""
Render ==
  /\ args.fn = "render"
  /\ result' = buildTimeTrackingAddXML(args.a)
  /\ args' = [args EXCEPT !.fn = "render returned"]
  /\ UNCHANGED << store, sessions, heap, calls, reply, hist >>
SpecRender == InitRender /\ [][Render]_vars

\* ----------------------------------------------------------------- claims
Doc(id) == IF id > 0 THEN Documents[id] ELSE ""
Cursor(sid) == heap[sid].currentIndex
Total(sid) == Len(heap[sid].pendingEntries)

\* C1: markEntriesQBSynced is called for a record only when the response
\* reports success and the record is the one whose document the latest
\* sendRequestXML of the session returned.
C1_MarkOnlyHandedOut ==
  \A i \in Slots :
    calls[i].op = "receiveResponseXML" =>
      calls[i].rsp.statusCode = "0" /\ calls[i].entry = calls[i].handed

\* C2: in every live session 0 <= currentIndex <= number of pending entries.
C2_CursorInRange ==
  \A sid \in DOMAIN heap :
    Live(sid) => 0 <= Cursor(sid) /\ Cursor(sid) <= Total(sid)

\* C3: getQBSyncPendingEntries is called at most once for a session, also
\* when the first call returned nothing or failed.
C3_FetchAtMostOnce ==
  \A sid \in DOMAIN hist : hist[sid].fetches <= 1

\* C4: of two sendRequestXML calls of a session with no receiveResponseXML
\* between them the second returns what the first returned, and the cursor
\* stays where it was.
C4_SendIsIdempotent ==
  [][\A sid \in DOMAIN heap :
       (hist[sid].handed # -1 /\ hist'[sid].handed # -1) =>
         /\ Doc(hist'[sid].handed) = Doc(hist[sid].handed)
         /\ heap'[sid].currentIndex = heap[sid].currentIndex]_vars

\* C5: once a session has stored a worklist and its cursor has reached the end
\* of it (an empty worklist included), every later sendRequestXML returns "",
\* whatever the sheet gains meanwhile.
Exhausted(sid) == Live(sid) /\ hist[sid].stored /\ Cursor(sid) >= Total(sid)
C5_ExhaustedStaysEmpty ==
  [][\A sid \in DOMAIN heap :
       (Exhausted(sid) /\ hist'[sid].handed # hist[sid].handed
                        /\ hist'[sid].handed # -1) =>
         Doc(hist'[sid].handed) = ""]_vars

\* C6: the cursor of a live session never decreases, and a receiveResponseXML
\* on a live session leaves it exactly one above where the call found it,
\* whatever the outcome.
ReceiveReturned(sid) ==
  /\ reply.op = "receiveResponseXML" /\ reply.sid = sid
  /\ Live(sid) /\ Receiving(sid) = 0
SteppedByOne ==
  \A sid \in DOMAIN heap : ReceiveReturned(sid) => Cursor(sid) = hist[sid].cursor0 + 1
C6_CursorAdvancesByOne ==
  [][/\ \A sid \in DOMAIN heap :
          Live(sid) /\ (\E t \in AllTickets : sessions'[t] = sid) =>
            heap'[sid].currentIndex >= heap[sid].currentIndex
     /\ SteppedByOne']_vars
C6_Witness ==
  \E sid \in DOMAIN heap :
    /\ ReceiveReturned(sid) /\ reply.num = -1
    /\ Cursor(sid) = 2 /\ hist[sid].cursor0 = 1

\* C7: a receiveResponseXML that ends without an error returns
\* floor(100 * currentIndex / length), currentIndex taken after the increment.
C7_ProgressIsFloor ==
  args.fn = "progress returned" => result = (100 * args.a) \div args.b

\* C8: receiveResponseXML returns -1 or an integer of 0..100 (0 is the value
\* for an empty worklist).
C8_ProgressInRange ==
  reply.op = "receiveResponseXML" =>
    reply.num = -1 \/ (0 <= reply.num /\ reply.num <= 100)

\* The agent of SpecAgent has answered every one of the k >= 1 documents of the
\* session with a status document, and the last receiveResponseXML returned.
Alternated(sid) ==
  /\ ReceiveReturned(sid)
  /\ hist[sid].status
  /\ Total(sid) >= 1 /\ hist[sid].rounds = Total(sid)
MarkedAsConfirmed(sid) ==
  \A id \in RowIds : hist[sid].marks[id] = IF id \in hist[sid].oks THEN 1 ELSE 0

\* C9 (as stated): after k strictly alternating rounds the cursor is k, the
\* last progress is 100, markEntriesQBSynced was called exactly once for each
\* record confirmed as success and for no other, and lastError is non-empty
\* if some failure carried a non-empty status message.
C9_Alternation ==
  \A sid \in DOMAIN heap :
    Alternated(sid) =>
      /\ Cursor(sid) = Total(sid)
      /\ reply.num = 100
      /\ MarkedAsConfirmed(sid)
      /\ hist[sid].failed => heap[sid].lastError # ""

\* C9 (amended): after k strictly alternating rounds the cursor is k, the
\* last progress is 100 unless markEntriesQBSynced failed for the last record
\* (then it is -1 and lastError is that failure), markEntriesQBSynced was
\* called exactly once for each record confirmed as success and for no other,
\* and lastError is non-empty if the latest failure carried a non-empty
\* status message.
C9_AlternationAmended ==
  \A sid \in DOMAIN heap :
    Alternated(sid) =>
      /\ Cursor(sid) = Total(sid)
      /\ \/ reply.num = 100
         \/ reply.num = -1 /\ heap[sid].lastError = MarkError
      /\ MarkedAsConfirmed(sid)
      /\ hist[sid].failedLast => heap[sid].lastError # ""
C9_Witness ==
  \E sid \in DOMAIN heap :
    /\ Alternated(sid) /\ Total(sid) = 2
    /\ hist[sid].failed /\ hist[sid].oks # {}
    /\ reply.num = -1

\* C10: two receiveResponseXML calls in flight for one ticket never work on
\* the same entry.
C10_NoSharedEntry ==
  \A i, j \in Slots :
    (/\ i # j
     /\ calls[i].op = "receiveResponseXML" /\ calls[j].op = "receiveResponseXML"
     /\ calls[i].sid = calls[j].sid) => calls[i].entry # calls[j].entry

\* C11: while a sendRequestXML of a session awaits getQBSyncPendingEntries, no
\* second sendRequestXML of that session starts a fetch of its own, and no
\* receiveResponseXML moves the cursor off 0.
C11_NoFetchRace ==
  \A i \in Slots :
    calls[i].op = "sendRequestXML" =>
      /\ \A j \in Slots \ {i} :
           ~(calls[j].op = "sendRequestXML" /\ calls[j].sid = calls[i].sid)
      /\ heap[calls[i].sid].currentIndex = 0

\* C12: an authenticate with the configured credentials returns a non-empty
\* ticket that no live session has, adds one session in its initial state and
\* leaves every other session and its ticket as they were; a getLastError
\* with the new ticket right after returns "".
C12_AuthenticateFresh ==
  [][/\ Len(heap') = Len(heap) + 1 =>
          /\ reply'.op = "authenticate" /\ reply'.aux = ""
          /\ reply'.str \in Tickets /\ sessions[reply'.str] = 0
          /\ sessions' = [sessions EXCEPT ![reply'.str] = Len(heap')]
          /\ heap'[Len(heap')] = NewSession
          /\ \A sid \in DOMAIN heap : heap'[sid] = heap[sid]
     /\ (/\ reply.op = "authenticate" /\ reply.sid # 0
         /\ reply'.op = "getLastError" /\ reply'.sid = reply.sid) =>
          reply'.str = ""]_vars

\* C13: an authenticate whose username/password pair is not the configured
\* one returns ["", "nvu"] and leaves the registry and every session as they
\* were; no session is ever stored under the empty ticket, so sendRequestXML
\* and getLastError with the empty ticket return "".  (Read each conjunct
\* backwards: a step with another answer or effect is no such call.)
C13_InvalidCredentials ==
  [][/\ (/\ reply'.op = "authenticate"
         /\ ~(/\ reply' = Reply("authenticate", 0, "", "nvu", 0)
              /\ UNCHANGED << sessions, heap >>)) =>
          ~\E u \in Usernames, p \in Passwords :
              /\ ~(u = CONFIG.username /\ p = CONFIG.password)
              /\ handleAuthenticate(Sequential, u, p)
     /\ sessions'[""] = 0
     /\ (reply'.op = "sendRequestXML" /\ reply'.str # "") =>
          ~handleSendRequestXML(Sequential, "")
     /\ (reply'.op = "getLastError" /\ reply'.str # "") =>
          ~handleGetLastError(Sequential, "")]_vars
C13_Witness ==
  /\ reply = Reply("authenticate", 0, "", "nvu", 0)
  /\ \E t \in Tickets : sessions[t] # 0 /\ heap[sessions[t]].lastError # ""

\* C14: with a ticket that has no session (never issued, or closed) every
\* procedure returns its sentinel (sendRequestXML "", receiveResponseXML -1,
\* getLastError "", connectionError "done", closeConnection "OK") and changes
\* neither the registry, nor a session, nor the sheet, and starts no call of
\* getQBSyncPendingEntries or markEntriesQBSynced.  (Read backwards: a step
\* with another answer or with an effect is no call with such a ticket.)
Untouched == UNCHANGED << store, sessions, heap, calls, hist >>
Sentinels ==
  [sendRequestXML |-> Reply("sendRequestXML", 0, "", "", 0),
   receiveResponseXML |-> Reply("receiveResponseXML", 0, "", "", -1),
   getLastError |-> Reply("getLastError", 0, "", "", 0),
   connectionError |-> Reply("connectionError", 0, "done", "", 0),
   closeConnection |-> Reply("closeConnection", 0, "OK", "", 0)]
UnknownTickets == {t \in AllTickets : sessions[t] = 0}
UnknownCall(op, t) ==
  CASE op = "sendRequestXML" -> handleSendRequestXML(Sequential, t)
    [] op = "receiveResponseXML" ->
         \E r \in Responses : handleReceiveResponseXML(Sequential, t, r)
    [] op = "getLastError" -> handleGetLastError(Sequential, t)
    [] op = "connectionError" ->
         \E m \in Messages : handleConnectionError(Sequential, t, m)
    [] op = "closeConnection" -> handleCloseConnection(Sequential, t)
C14_UnknownTicket ==
  [][\/ reply'.op \notin DOMAIN Sentinels
     \/ [reply' EXCEPT !.aux = ""] = Sentinels[reply'.op] /\ Untouched
     \/ \A t \in UnknownTickets : ~UnknownCall(reply'.op, t)]_vars
C14_Witness ==
  /\ Len(heap) >= 1 /\ \A t \in Tickets : sessions[t] = 0
  /\ reply = Reply("receiveResponseXML", 0, "", "", -1)

\* C15: connectionError on a live session returns "done" and changes nothing
\* but the lastError of that session, which becomes the message: the session
\* stays in the registry with its cursor and worklist, and a sendRequestXML
\* would return what it would have returned before.
C15_ConnectionError ==
  [][reply'.op = "connectionError" =>
       \A t \in Tickets, m \in Messages :
         (sessions[t] # 0 /\ handleConnectionError(Sequential, t, m)) =>
           /\ reply'.str = "done"
           /\ heap' = [heap EXCEPT ![sessions[t]].lastError = m]
           /\ UNCHANGED << store, sessions, calls >>
           /\ SendResult(heap'[sessions[t]]) = SendResult(heap[sessions[t]])]_vars
C15_Witness ==
  /\ reply.op = "connectionError" /\ reply.sid # 0 /\ Live(reply.sid)
  /\ heap[reply.sid].lastError = "connection lost"
  /\ Cursor(reply.sid) = 1 /\ Total(reply.sid) = 2

\* C16: closeConnection returns "OK" and removes the session of its ticket
\* and no other (nothing at all when the ticket has none, as on a second
\* call); the ticket it closed is not live after the next step either.
C16_CloseConnection ==
  [][/\ reply'.op = "closeConnection" =>
          \A t \in AllTickets :
            handleCloseConnection(Tenants, t) =>
              /\ reply'.str = "OK"
              /\ sessions' = [sessions EXCEPT ![t] = 0]
              /\ \A sid \in DOMAIN heap : sid # sessions[t] => heap'[sid] = heap[sid]
     /\ (reply.op = "closeConnection" /\ reply.sid # 0) =>
          sessions'[reply.aux] = 0]_vars

\* C17: a receiveResponseXML on a live session with a status other than
\* success stores the status message in lastError, steps the cursor by 1 and
\* starts no markEntriesQBSynced; the entry it skipped is not synced in the
\* sheet then, and the sheet's row of an entry the cursor has passed does not
\* change as long as the session lives.
Failures == {r \in Responses : r.TimeTrackingAddRs /\ r.statusCode # "0"}
Passed(sid) == {heap[sid].pendingEntries[i] :
                  i \in 1..(IF Cursor(sid) < Total(sid) THEN Cursor(sid) ELSE Total(sid))}
C17_FailureStatus ==
  [][/\ reply'.op = "receiveResponseXML" =>
          \A t \in Tickets, r \in Failures :
            (sessions[t] # 0 /\ handleReceiveResponseXML(Sequential, t, r)) =>
              LET sid == sessions[t] IN
              /\ heap' = [heap EXCEPT ![sid].lastError = r.statusMessage,
                                      ![sid].currentIndex = @ + 1]
              /\ UNCHANGED << store, calls, sessions >>
              /\ Cursor(sid) < Total(sid) =>
                   store'[heap[sid].pendingEntries[Cursor(sid) + 1]].QBSynced # "TRUE"
     /\ \/ store' = store
        \/ \A sid \in DOMAIN heap :
             Live(sid) => \A id \in Passed(sid) : store'[id] = store[id]]_vars
C17_Witness ==
  \E sid \in DOMAIN heap :
    /\ Live(sid) /\ Cursor(sid) = 2 /\ Total(sid) = 2
    /\ heap[sid].lastError = "name not found"
    /\ store[heap[sid].pendingEntries[1]].QBSynced # "TRUE"
    /\ store[heap[sid].pendingEntries[2]].QBSynced = "TRUE"

\* C18: once a receiveResponseXML of a session has reported an outcome for
\* the entry at index i, no sendRequestXML of that session returns the
\* document of that entry (or of one before it) again.
Settled(sid) ==
  {heap[sid].pendingEntries[i] :
     i \in 1..(IF hist[sid].cursor0 + 1 < Total(sid)
               THEN hist[sid].cursor0 + 1 ELSE Total(sid))}
C18_NoRetry ==
  \A sid \in DOMAIN heap :
    (Live(sid) /\ hist[sid].handed > 0 /\ Receiving(sid) = 0) =>
      hist[sid].handed \notin Settled(sid)
C18_Witness ==
  \E sid \in DOMAIN heap :
    /\ Live(sid) /\ Total(sid) = 2 /\ hist[sid].cursor0 = 0
    /\ hist[sid].handed = heap[sid].pendingEntries[2]
    /\ reply.op = "sendRequestXML" /\ reply.str = Doc(hist[sid].handed)

\* C19: after markEntriesQBSynced([id]) has completed for an id that
\* getQBSyncPendingEntries returned, no later getQBSyncPendingEntries returns
\* that row; marking an id whose row is synced already leaves the sheet as it
\* was; and getQBSyncPendingEntries returns exactly the rows that are
\* COMPLETE, not synced, and have a name cell and a duration cell that are not
\* empty, in sheet order.
Returned(seq) == {seq[i] : i \in DOMAIN seq}
Exportable ==
  {id \in RowIds : /\ store[id].Status = "COMPLETE"
                   /\ store[id].QBSynced # "TRUE"
                   /\ store[id].EmployeeName # << >>
                   /\ ~store[id].TotalHours.blank}
\* C19, first part: a row whose id getQBSyncPendingEntries returned and whose
\* markEntriesQBSynced([id]) has completed is not returned by any later
\* getQBSyncPendingEntries.
C19_MarkedIsNotReturned ==
  [][\A id \in args'.a : id \notin Returned(getQBSyncPendingEntries')]_vars
\* C19, second part: marking a row that is synced already changes nothing.
C19_RemarkIsNoOp ==
  [][\A id \in RowIds : Mark(id) /\ store[id].QBSynced = "TRUE" => store' = store]_vars
\* C19, third part: what getQBSyncPendingEntries returns, in sheet order.
C19_FetchIsExact ==
  [][args'.fn = "fetch" =>
       /\ Returned(result') = Exportable'
       /\ \A i, j \in DOMAIN result' : i < j => result'[i] < result'[j]]_vars

\* C20: for a duration of t whole minutes (t / 60 decimal hours) formatDuration
\* returns PT<floor(t/60)>H when t mod 60 = 0 and PT<floor(t/60)>H<t mod 60>M
\* otherwise; 90 minutes give PT1H30M, 120 give PT2H and 5 give PT0H5M.
Rendered(t) ==
  IF t % 60 = 0 THEN "PT" \o ToString(t \div 60) \o "H"
  ELSE "PT" \o ToString(t \div 60) \o "H" \o ToString(t % 60) \o "M"
C20_Duration ==
  args.fn = "duration returned" =>
    /\ result = Rendered(args.a)
    /\ args.a = 90 => result = "PT1H30M"
    /\ args.a = 120 => result = "PT2H"
    /\ args.a = 5 => result = "PT0H5M"
C20_Witness ==
  /\ args.fn = "duration returned"
  /\ args.a = 120
  /\ result = "PT2H"


\* C21: the document carries <BillableStatus>Billable</BillableStatus> and the
\* CustomerRef of the entry's customer exactly when CustomerName is neither
\* empty nor 'Shop' and RequiresTicket is 'TRUE'; in every other case it
\* carries <BillableStatus>NotBillable</BillableStatus> and no CustomerRef.
Contains(str, sub) ==
  \E i \in 1..(Len(str) - Len(sub) + 1) : SubSeq(str, i, i + Len(sub) - 1) = sub
RealCustomer(entry) == entry.CustomerName # << >> /\ entry.CustomerName # << "Shop" >>
C22_WorklistFixed ==
  [][\A sid \in DOMAIN heap :
       (/\ Live(sid)
        /\ hist[sid].stored
        /\ \E t \in AllTickets : sessions'[t] = sid) =>
         heap'[sid].pendingEntries = heap[sid].pendingEntries]_vars

\* C23: a receiveResponseXML on a registered session that steps the cursor
\* past an entry without marking it (status code other than 0, a document
\* that does not parse, or one without a TimeTrackingAddRs element) leaves in
\* lastError a message of that failure: the status message, the parser's
\* message, or for the missing element a text that no other cause produces.
OtherCauses ==
  {"", ParseError, TypeError, FetchError, MarkError}
    \cup Messages \cup {r.statusMessage : r \in Responses}
Describes(response, text) ==
  IF ~response.wellFormed THEN text = ParseError
  ELSE IF response.TimeTrackingAddRs THEN text = response.statusMessage /\ text # ""
  ELSE text \notin OtherCauses
Unmarked == {r \in Responses : ~(r.TimeTrackingAddRs /\ r.statusCode = "0")}
C23_SkipSetsLastError ==
  [][reply'.op = "receiveResponseXML" =>
       \A t \in Tickets, r \in Unmarked :
         (/\ sessions[t] # 0
          /\ Cursor(sessions[t]) < Total(sessions[t])
          /\ handleReceiveResponseXML(Sequential, t, r)) =>
           /\ Cursor(sessions[t])' = Cursor(sessions[t]) + 1
           /\ Describes(r, heap'[sessions[t]].lastError)]_vars
\* C23 without the document that has no TimeTrackingAddRs element and without
\* the failure that carries no status message.
C23_StatusOrParse ==
  [][reply'.op = "receiveResponseXML" =>
       \A t \in Tickets, r \in Unmarked \ {NoRs, Rs("3100", "")} :
         (/\ sessions[t] # 0
          /\ Cursor(sessions[t]) < Total(sessions[t])
          /\ handleReceiveResponseXML(Sequential, t, r)) =>
           Describes(r, heap'[sessions[t]].lastError)]_vars

\* C24: a receiveResponseXML on a registered session with an outcome document
\* that does not parse returns -1, puts the parser's message in lastError,
\* steps the cursor by exactly 1 and starts no markEntriesQBSynced call.
C24_Unparsable ==
  [][reply'.op = "receiveResponseXML" =>
       \A t \in Tickets :
         (sessions[t] # 0 /\ handleReceiveResponseXML(Sequential, t, Malformed)) =>
           LET sid == sessions[t] IN
           /\ reply'.num = -1
           /\ heap' = [heap EXCEPT ![sid].lastError = ParseError,
                                   ![sid].currentIndex = @ + 1]
           /\ UNCHANGED << store, calls, sessions >>]_vars
C24_Witness ==
  \E sid \in DOMAIN heap :
    /\ ReceiveReturned(sid) /\ reply.num = -1
    /\ heap[sid].lastError = ParseError
    /\ Cursor(sid) = 1 /\ hist[sid].cursor0 = 0 /\ Total(sid) = 2
    /\ \A id \in RowIds : store[id].QBSynced # "TRUE"

\* C25: when getQBSyncPendingEntries fails inside sendRequestXML the call
\* returns "", the failure message is in lastError of the session, and the
\* session stays registered with its cursor and its worklist as they were.
C25_FetchFailure ==
  [][(reply'.op = "sendRequestXML" /\ calls' # calls) =>
       \A i \in Slots :
         sendRequestXMLFetchFailed(Sequential, i) =>
           LET sid == calls[i].sid IN
           /\ reply'.str = ""
           /\ Live(sid)
           /\ heap' = [heap EXCEPT ![sid].lastError = FetchError]
           /\ UNCHANGED << store, sessions >>]_vars
C25_Witness ==
  \E sid \in DOMAIN heap :
    /\ Live(sid) /\ InFlight = {}
    /\ reply.op = "sendRequestXML" /\ reply.sid = sid /\ reply.str = ""
    /\ heap[sid].lastError = FetchError
    /\ Cursor(sid) = 0 /\ Total(sid) = 0
    /\ \E id \in RowIds : store[id].Status = "COMPLETE"

\* C26: under the well-behaved agent that goes on, a registered session
\* eventually gets "" from sendRequestXML, and when it does the agent has
\* made exactly as many receiveResponseXML calls as the worklist has entries,
\* whatever outcomes it reported.
Registered(sid) == sid \in DOMAIN heap /\ Live(sid)
GotEmpty(sid) == Registered(sid) /\ hist[sid].next = "stop"
C26_Terminates ==
  \A sid \in 1..WellBehaved.sessions :
    /\ Registered(sid) ~> GotEmpty(sid)
    /\ [](GotEmpty(sid) => /\ hist[sid].rounds = Total(sid)
                           /\ Cursor(sid) = Total(sid))
C26_Witness ==
  /\ GotEmpty(1)
  /\ Total(1) = 2 /\ hist[1].rounds = 2
  /\ Cardinality(hist[1].oks) = 1
  /\ heap[1].lastError = ParseError

\* C27: when the agent reports success for the current entry and
\* markEntriesQBSynced rejects, receiveResponseXML returns -1, puts the
\* message of the rejection in lastError and steps the cursor by exactly 1;
\* the row is as unsynced in the sheet as it was.
C27_MarkFailure ==
  [][(reply'.op = "receiveResponseXML" /\ calls' # calls) =>
       \A i \in Slots :
         receiveResponseXMLMarkFailed(i) =>
           LET sid == calls[i].sid IN
           /\ calls[i].rsp.statusCode = "0"
           /\ calls[i].entry = heap[sid].pendingEntries[Cursor(sid) + 1]
           /\ reply'.num = -1
           /\ heap' = [heap EXCEPT ![sid].lastError = MarkError,
                                   ![sid].currentIndex = @ + 1]
           /\ store' = store
           /\ sessions' = sessions]_vars
C27_Witness ==
  \E sid \in DOMAIN heap :
    /\ ReceiveReturned(sid) /\ reply.num = -1
    /\ heap[sid].lastError = MarkError
    /\ Cursor(sid) = 1 /\ hist[sid].cursor0 = 0 /\ Total(sid) >= 1
    /\ store[heap[sid].pendingEntries[1]].QBSynced # "TRUE"

\* C28: a call that bears ticket A (sendRequestXML, receiveResponseXML,
\* getLastError, connectionError or closeConnection, and the completion of
\* its awaited sheet call) leaves every session registered under another
\* ticket B registered, with its cursor, its worklist and its lastError as
\* they were.
Bears(A) ==
  \/ handleSendRequestXML(Overlapping, A)
  \/ \E r \in Outcomes : handleReceiveResponseXML(Overlapping, A, r)
  \/ \E m \in Messages : handleConnectionError(Overlapping, A, m)
  \/ handleGetLastError(Overlapping, A)
  \/ handleCloseConnection(Overlapping, A)
  \/ \E i \in Slots : /\ calls[i].op # "idle" /\ calls[i].sid = sessions[A]
                       /\ calls'[i].op = "idle"
Others(A) == {B \in Tickets : B # A /\ sessions[B] # 0 /\ sessions[B] # sessions[A]}
C28_Isolation ==
  [][\/ heap' = heap /\ sessions' = sessions
     \/ \A A \in Tickets :
          Bears(A) => \A B \in Others(A) :
                        /\ sessions'[B] = sessions[B]
                        /\ heap'[sessions[B]] = heap[sessions[B]]]_vars
C28_Witness ==
  /\ sessions["TICKET-1"] = 0
  /\ sessions["TICKET-2"] = 2
  /\ reply = Reply("closeConnection", 1, "OK", "TICKET-1", 0)
  /\ Cursor(2) = 1 /\ Total(2) = 2 /\ heap[2].lastError = "connection lost"
====
